---------------------------- MODULE Spec2Model ----------------------------
(***************************************************************************)
(* The wlr data-control selection broker of smithay                        *)
(* (src/wayland/data_control): the Manager, Source and Device request      *)
(* handlers acting on the per-seat SeatData, as a state machine.  One      *)
(* action is one request handler (or one transport event) run to           *)
(* completion: the broker processes one request at a time.                 *)
(***************************************************************************)
EXTENDS Naturals, Sequences, FiniteSets

\* ------------------------------------------------------------- bounds
MaxSources == 2     \* sources ever created
MaxDevices == 2     \* devices ever created
MaxOffers  == 2     \* Source.Offer requests ever processed
MaxRequests == 6    \* requests and disconnects ever processed
MaxPending == 2     \* requests the transport holds undelivered

Clients == {"c1", "c2"}
Seats   == {"s1", "s2"}
\* wl_seat handles a client can name: the seats, and one that resolves to none
StaleSeat == "stale"
WlSeats == Seats \cup {StaleSeat}
Mimes   == {"text/plain", "text/html"}

SourceIds == 1..MaxSources
DeviceIds == 1..MaxDevices
\* Option<Source>::None
None == 0

VARIABLES
    connected,       \* [Clients -> BOOLEAN]: the client's connection is open
    sources,         \* Seq of source::Data (with the owning client); id = index
    devices,         \* Seq of device::Data (with client and liveness); id = index
    seat_data,       \* [Seats -> SeatData or absent]: the seat's user data
    requests,        \* number of requests and disconnects processed so far
    sent,            \* [DeviceIds -> Seq of events]: events sent by the last step
    lastOp,          \* the request (or event) the last step processed
    offers,          \* the Offer objects issued so far
    reply,           \* what the last metadata query returned
    keyboard_focus,  \* [Seats -> KeyboardFocus]: the input subsystem's state
    wire,            \* the transport: requests submitted and not yet delivered
    inner,           \* [SourceIds -> holder]: the Mutex<Metadata> of each source
    pc               \* where the dispatch thread and a reader thread are

vars == <<connected, sources, devices, seat_data, requests, sent, lastOp,
          offers, reply, keyboard_focus, wire, inner, pc>>

\* ------------------------------------------------------------ Selection
\* enum Selection { Empty, Client(Source) }: the set of sources holding it
Empty == {}
Client(s) == {s}

\* ------------------------------------------------------------- SeatData
\* seat_data.rs holds only the imports of SeatData; its methods follow the
\* design document (sections 3, 4.1 and 4.3).
\* The seat's user data before insert_if_missing ran
AbsentSeatData == [present |-> FALSE, selection |-> Empty, known_devices |-> << >>]

\* SeatData::new()
SeatDataNew == [present |-> TRUE, selection |-> Empty, known_devices |-> << >>]

\* An insert that replaces the SeatData already there
insert_if_missing_always(sd) == SeatDataNew

\* An insert that is left out
insert_if_missing_skip(sd) == sd

\* seat.user_data().get::<RefCell<SeatData>>() is Some
user_data_get(sd) == sd.present

\* UserDataMap::insert_if_missing(|| RefCell::new(SeatData::new()))
insert_if_missing(sd) == IF sd.present THEN sd ELSE SeatDataNew

\* SeatData::add_device
add_device(sd, d) == [sd EXCEPT !.known_devices = Append(@, d)]

\* SeatData::retain_devices(|ndd| ndd != resource)
retain_devices(sd, d) ==
    [sd EXCEPT !.known_devices = SelectSeq(@, LAMBDA ndd : ndd # d)]

\* The event one device gets for a selection
SelectionEvent(sel) ==
    IF sel = Empty
    THEN [kind |-> "SelectionCleared", source |-> None]
    ELSE [kind |-> "SelectionOffer", source |-> CHOOSE s \in sel : TRUE]

NoEvents == [d \in DeviceIds |-> << >>]

\* SeatData::send_selection: one event sent to every known device
send_selection(sd) ==
    [d \in DeviceIds |->
        [i \in 1..Cardinality({k \in 1..Len(sd.known_devices) : sd.known_devices[k] = d})
            |-> SelectionEvent(sd.selection)]]

\* SeatData::set_selection: replace the selection, then send it to the known
\* devices.  data is the SeatData afterwards, events what was sent.
set_selection(sd, new_selection) ==
    LET after == [sd EXCEPT !.selection = new_selection]
    IN  [data |-> after, events |-> send_selection(after)]

\* --------------------------------------------------------------- Source
\* A Data whose alive tracker is already notified
SourceDataNew_dead(c) == [client |-> c, alive |-> FALSE, mime_types |-> << >>]

\* source::Data::new()
SourceDataNew(c) == [client |-> c, alive |-> TRUE, mime_types |-> << >>]

\* impl IsAlive for Source
alive(s) == sources[s].alive

\* The closure run on a default Metadata instead of the source's
with_source_metadata_default(s) ==
    IF s \in 1..Len(sources)
    THEN [ok |-> TRUE, value |-> << >>]
    ELSE [ok |-> FALSE, value |-> << >>]

\* A lookup that falls back to a default Metadata when the resource carries
\* no source::Data
with_source_metadata_lenient(s) ==
    IF s \in 1..Len(sources)
    THEN [ok |-> TRUE, value |-> sources[s].mime_types]
    ELSE [ok |-> TRUE, value |-> << >>]

\* with_source_metadata(source, f): Ok(f(metadata)) or Err(UnmanagedResource)
with_source_metadata(s) ==
    IF s \in 1..Len(sources)
    THEN [ok |-> TRUE, value |-> sources[s].mime_types]
    ELSE [ok |-> FALSE, value |-> << >>]

\* Dispatch<Source>::destroyed: alive_tracker.destroy_notify()
destroy_notify(src) == [src EXCEPT !.alive = FALSE]

RECURSIVE SumLen(_, _)
SumLen(seq, n) == IF n = 0 THEN 0 ELSE Len(seq[n].mime_types) + SumLen(seq, n - 1)
OffersProcessed == SumLen(sources, Len(sources))

\* --------------------------------------------------------------- Focus
\* The seat's keyboard and its focus belong to the input subsystem; a handler
\* reads them when it runs.  kf is what it reads: "NoKeyboard", "NoFocus" (a
\* keyboard whose focus no client has) or the client that has the focus.
KeyboardFocus == {"NoKeyboard", "NoFocus"} \cup Clients

\* Seat::get_keyboard() is Some
get_keyboard(kf) == kf # "NoKeyboard"

\* A check that is satisfied by the focus of any client
client_of_object_has_focus_any(kf, c) == kf \in Clients

\* KeyboardHandle::client_of_object_has_focus(&resource.id())
client_of_object_has_focus(kf, c) == kf = c

\* Seat::from_resource(&wl_seat) is Some
from_resource(wl_seat) == wl_seat \in Seats

\* ---------------------------------------------------------------- Init
NoOp == [kind |-> "Init", client |-> "none", device |-> None, source |-> None,
         seat |-> "none", mime |-> "none", focus |-> "none", old |-> Empty,
         ok |-> TRUE, new_selection |-> << >>, panic |-> FALSE]

\* No metadata query has been answered yet
NoReply == [ok |-> FALSE, value |-> << >>]

\* No request is waiting, none was delivered
NoRequest == [device |-> None, source |-> None, submitted_focused |-> FALSE]
NoWire == [pending |-> [c \in Clients |-> << >>], taken |-> NoRequest]

\* Neither thread is inside a handler or a metadata read
Idle == [dispatch |-> [at |-> "idle", client |-> "none", source |-> None, mime |-> "none"],
         reader |-> [at |-> "idle", source |-> None]]

Init ==
    /\ connected = [c \in Clients |-> TRUE]
    /\ sources = << >>
    /\ devices = << >>
    /\ seat_data = [s \in Seats |-> AbsentSeatData]
    /\ requests = 0
    /\ sent = NoEvents
    /\ lastOp = NoOp
    /\ offers = {}
    /\ reply = NoReply
    /\ keyboard_focus = [s \in Seats |-> "NoFocus"]
    /\ wire = NoWire
    /\ inner = [s \in SourceIds |-> "unlocked"]
    /\ pc = Idle

\* The transport hands the broker one more request
Processed ==
    /\ requests < MaxRequests
    /\ requests' = requests + 1

\* ------------------------------------------------------------- Manager
\* Request::CreateDataSource
CreateDataSource(c) ==
    /\ connected[c]
    /\ Processed
    /\ Len(sources) < MaxSources
    /\ sources' = Append(sources, SourceDataNew(c))
    /\ sent' = NoEvents
    /\ lastOp' = [NoOp EXCEPT !.kind = "CreateDataSource", !.client = c, !.source = Len(sources) + 1]
    /\ UNCHANGED <<connected, devices, seat_data>>

\* A GetDataDevice that initialises the device before it resolves the seat
GetDataDevice_init_first(c, wl_seat) ==
    /\ connected[c]
    /\ Processed
    /\ Len(devices) < MaxDevices
    /\ devices' = Append(devices, [client |-> c, wl_seat |-> wl_seat, alive |-> TRUE])
    /\ IF from_resource(wl_seat)
       THEN /\ seat_data' = [seat_data EXCEPT ![wl_seat] =
                                add_device(insert_if_missing(@), Len(devices) + 1)]
            /\ lastOp' = [NoOp EXCEPT !.kind = "GetDataDevice", !.client = c,
                                        !.device = Len(devices) + 1, !.seat = wl_seat]
       ELSE /\ UNCHANGED seat_data
            /\ lastOp' = [NoOp EXCEPT !.kind = "GetDataDevice", !.client = c,
                                        !.seat = wl_seat, !.ok = FALSE]
    /\ sent' = NoEvents
    /\ UNCHANGED <<connected, sources>>

\* Request::GetDataDevice
GetDataDevice(c, wl_seat) ==
    /\ connected[c]
    /\ Processed
    /\ IF from_resource(wl_seat)
       THEN /\ Len(devices) < MaxDevices
            /\ devices' = Append(devices, [client |-> c, wl_seat |-> wl_seat, alive |-> TRUE])
            /\ seat_data' = [seat_data EXCEPT ![wl_seat] =
                                add_device(insert_if_missing(@), Len(devices) + 1)]
            /\ lastOp' = [NoOp EXCEPT !.kind = "GetDataDevice", !.client = c,
                                        !.device = Len(devices) + 1, !.seat = wl_seat]
       ELSE /\ UNCHANGED <<devices, seat_data>>
            /\ lastOp' = [NoOp EXCEPT !.kind = "GetDataDevice", !.client = c,
                                        !.seat = wl_seat, !.ok = FALSE]
    /\ sent' = NoEvents
    /\ UNCHANGED <<connected, sources>>

\* -------------------------------------------------------------- Source
\* A push that keeps the MIME types unique
push_unique(mime_types, mime_type) ==
    IF \E i \in 1..Len(mime_types) : mime_types[i] = mime_type
    THEN mime_types
    ELSE Append(mime_types, mime_type)

\* data.mime_types.push(mime_type)
push(mime_types, mime_type) == Append(mime_types, mime_type)

\* An Offer that is dropped once the source is the selection of a seat
SourceOffer_until_installed(c, s, mime_type) ==
    /\ connected[c]
    /\ Processed
    /\ s \in 1..Len(sources)
    /\ sources[s].client = c
    /\ alive(s)
    /\ OffersProcessed < MaxOffers
    /\ sources' = IF \E seat \in Seats : s \in seat_data[seat].selection
                  THEN sources
                  ELSE [sources EXCEPT ![s].mime_types = push(@, mime_type)]
    /\ sent' = NoEvents
    /\ lastOp' = [NoOp EXCEPT !.kind = "SourceOffer", !.client = c, !.source = s, !.mime = mime_type]
    /\ UNCHANGED <<connected, devices, seat_data>>

\* Request::Offer { mime_type }
SourceOffer(c, s, mime_type) ==
    /\ connected[c]
    /\ Processed
    /\ s \in 1..Len(sources)
    /\ sources[s].client = c
    /\ alive(s)
    /\ OffersProcessed < MaxOffers
    /\ sources' = [sources EXCEPT ![s].mime_types = push(@, mime_type)]
    /\ sent' = NoEvents
    /\ lastOp' = [NoOp EXCEPT !.kind = "SourceOffer", !.client = c, !.source = s, !.mime = mime_type]
    /\ UNCHANGED <<connected, devices, seat_data>>

\* Request::Destroy (a destructor: the handler does nothing, then the
\* transport destroys the object and calls destroyed)
SourceDestroy(c, s) ==
    /\ connected[c]
    /\ Processed
    /\ s \in 1..Len(sources)
    /\ sources[s].client = c
    /\ alive(s)
    /\ sources' = [sources EXCEPT ![s] = destroy_notify(@)]
    /\ sent' = NoEvents
    /\ lastOp' = [NoOp EXCEPT !.kind = "SourceDestroy", !.client = c, !.source = s]
    /\ UNCHANGED <<connected, devices, seat_data>>

\* -------------------------------------------------------------- Device
\* source.map(Selection::Client).unwrap_or(Selection::Empty)
ToSelection(source) == IF source = None THEN Empty ELSE Client(source)

\* A call that adds the source to the selection instead of replacing it
SetSelectionCall_add(sd, source) ==
    set_selection(sd, sd.selection \cup ToSelection(source))

\* A call made only for Some(source): None leaves the selection as it is
SetSelectionCall_some_only(sd, source) ==
    IF source = None THEN [data |-> sd, events |-> NoEvents]
    ELSE set_selection(sd, ToSelection(source))

\* The selection assigned in place, without set_selection and its fan-out
SetSelectionCall_no_fanout(sd, source) ==
    [data |-> [sd EXCEPT !.selection = ToSelection(source)], events |-> NoEvents]

\* seat_data.borrow_mut().set_selection(dh, source.map(..).unwrap_or(..))
SetSelectionCall(sd, source) == set_selection(sd, ToSelection(source))

\* A guard that lets every client through on a seat without a keyboard
MaySetSelection_unless_keyboard(kf, c) ==
    get_keyboard(kf) => client_of_object_has_focus(kf, c)

\* A guard that only asks for a keyboard
MaySetSelection_any_client(kf, c) == get_keyboard(kf)

\* The focus guard of Request::SetSelection
MaySetSelection(kf, c) ==
    /\ get_keyboard(kf)
    /\ client_of_object_has_focus(kf, c)

\* A SetSelection that destroys the source it supersedes
DeviceSetSelection_destroys_old(c, d, source, kf) ==
    /\ connected[c]
    /\ Processed
    /\ d \in 1..Len(devices)
    /\ devices[d].client = c
    /\ devices[d].alive
    /\ source # None => (source \in 1..Len(sources) /\ sources[source].client = c /\ alive(source))
    /\ LET seat == devices[d].wl_seat
           op == [NoOp EXCEPT !.kind = "SetSelection", !.client = c, !.device = d,
                              !.source = source, !.seat = seat, !.focus = kf]
       IN
       IF from_resource(seat) /\ MaySetSelection(kf, c)
       THEN LET r == SetSelectionCall(seat_data[seat], source) IN
            /\ seat_data' = [seat_data EXCEPT ![seat] = r.data]
            /\ sources' = [s \in 1..Len(sources) |->
                             IF s \in seat_data[seat].selection /\ s # source
                             THEN destroy_notify(sources[s]) ELSE sources[s]]
            /\ sent' = r.events
            /\ lastOp' = [op EXCEPT !.old = seat_data[seat].selection]
       ELSE /\ UNCHANGED <<seat_data, sources>>
            /\ sent' = NoEvents
            /\ lastOp' = [op EXCEPT !.ok = FALSE]
    /\ UNCHANGED <<connected, devices>>

\* Handler::new_selection(handler, source.clone()): the calls the compositor's
\* handler gets, each with its argument and the selection the seat has then
new_selection(sd, source) == <<[source |-> source, selection |-> sd.selection]>>

\* A focused branch that calls the handler after set_selection
FocusedBranch_callback_last(sd, source) ==
    LET r == SetSelectionCall(sd, source)
    IN  [data |-> r.data, events |-> r.events, calls |-> new_selection(r.data, source)]

\* The branch of a client with the keyboard focus: new_selection, then
\* set_selection
FocusedBranch(sd, source) ==
    LET r == SetSelectionCall(sd, source)
    IN  [data |-> r.data, events |-> r.events, calls |-> new_selection(sd, source)]

\* Request::SetSelection { source }, run while the seat's keyboard focus is kf
DeviceSetSelection(c, d, source, kf) ==
    /\ connected[c]
    /\ Processed
    /\ d \in 1..Len(devices)
    /\ devices[d].client = c
    /\ devices[d].alive
    /\ source # None => (source \in 1..Len(sources) /\ sources[source].client = c /\ alive(source))
    /\ LET seat == devices[d].wl_seat
           op == [NoOp EXCEPT !.kind = "SetSelection", !.client = c, !.device = d,
                              !.source = source, !.seat = seat, !.focus = kf]
       IN
       IF from_resource(seat) /\ MaySetSelection(kf, c)
       THEN IF user_data_get(seat_data[seat])
            THEN LET r == FocusedBranch(seat_data[seat], source) IN
                 /\ seat_data' = [seat_data EXCEPT ![seat] = r.data]
                 /\ sent' = r.events
                 /\ lastOp' = [op EXCEPT !.old = seat_data[seat].selection,
                                         !.new_selection = r.calls]
            ELSE \* unwrap() of None
                 /\ UNCHANGED seat_data
                 /\ sent' = NoEvents
                 /\ lastOp' = [op EXCEPT !.ok = FALSE, !.panic = TRUE]
       ELSE /\ UNCHANGED seat_data
            /\ sent' = NoEvents
            /\ lastOp' = [op EXCEPT !.ok = FALSE]
    /\ UNCHANGED <<connected, sources, devices>>

\* A Destroy whose retain keeps the destroyed device and drops the others
DeviceDestroy_retain_self(c, d) ==
    /\ connected[c]
    /\ Processed
    /\ d \in 1..Len(devices)
    /\ devices[d].client = c
    /\ devices[d].alive
    /\ LET seat == devices[d].wl_seat IN
       IF from_resource(seat)
       THEN seat_data' = [seat_data EXCEPT ![seat].known_devices =
                             SelectSeq(@, LAMBDA ndd : ndd = d)]
       ELSE UNCHANGED seat_data
    /\ devices' = [devices EXCEPT ![d].alive = FALSE]
    /\ sent' = NoEvents
    /\ lastOp' = [NoOp EXCEPT !.kind = "DeviceDestroy", !.client = c, !.device = d,
                              !.seat = devices[d].wl_seat]
    /\ UNCHANGED <<connected, sources>>

\* Request::Destroy (a destructor)
DeviceDestroy(c, d) ==
    /\ connected[c]
    /\ Processed
    /\ d \in 1..Len(devices)
    /\ devices[d].client = c
    /\ devices[d].alive
    /\ LET seat == devices[d].wl_seat
           op == [NoOp EXCEPT !.kind = "DeviceDestroy", !.client = c, !.device = d,
                              !.seat = seat]
       IN
       IF from_resource(seat)
       THEN IF user_data_get(seat_data[seat])
            THEN /\ seat_data' = [seat_data EXCEPT ![seat] = retain_devices(@, d)]
                 /\ lastOp' = op
            ELSE \* unwrap() of None
                 /\ UNCHANGED seat_data
                 /\ lastOp' = [op EXCEPT !.ok = FALSE, !.panic = TRUE]
       ELSE /\ UNCHANGED seat_data
            /\ lastOp' = op
    /\ devices' = [devices EXCEPT ![d].alive = FALSE]
    /\ sent' = NoEvents
    /\ UNCHANGED <<connected, sources>>

\* ----------------------------------------------------------- transport
\* A destroyed callback that reaches the sources of every client
destroyed_sources_all(c) ==
    [s \in 1..Len(sources) |-> destroy_notify(sources[s])]

\* Dispatch<Source>::destroyed, called for each source of client c
destroyed_sources(c) ==
    [s \in 1..Len(sources) |->
        IF sources[s].client = c THEN destroy_notify(sources[s]) ELSE sources[s]]

\* The client's connection closes: the transport destroys each of its
\* objects and calls its destroyed callback.  Source has one
\* (destroy_notify); Device has none.
Disconnect(c) ==
    /\ connected[c]
    /\ Processed
    /\ connected' = [connected EXCEPT ![c] = FALSE]
    /\ sources' = destroyed_sources(c)
    /\ devices' = [d \in 1..Len(devices) |->
                     IF devices[d].client = c THEN [devices[d] EXCEPT !.alive = FALSE]
                     ELSE devices[d]]
    /\ sent' = NoEvents
    /\ lastOp' = [NoOp EXCEPT !.kind = "Disconnect", !.client = c]
    /\ UNCHANGED seat_data

\* ---------------------------------------------------------------- Spec
\* The broker alone.  What a handler reads of the keyboard focus is left
\* open (any kf), the transport delivers any request at any time, and the
\* Offer objects are not followed.
Apart == UNCHANGED <<offers, reply, keyboard_focus, wire, inner, pc>>

Next ==
    \/ \E c \in Clients : CreateDataSource(c) /\ Apart
    \/ \E c \in Clients, w \in WlSeats : GetDataDevice(c, w) /\ Apart
    \/ \E c \in Clients, s \in SourceIds, m \in Mimes : SourceOffer(c, s, m) /\ Apart
    \/ \E c \in Clients, s \in SourceIds : SourceDestroy(c, s) /\ Apart
    \/ \E c \in Clients, d \in DeviceIds, s \in SourceIds \cup {None}, kf \in KeyboardFocus :
          DeviceSetSelection(c, d, s, kf) /\ Apart
    \/ \E c \in Clients, d \in DeviceIds : DeviceDestroy(c, d) /\ Apart
    \/ \E c \in Clients : Disconnect(c) /\ Apart

Spec == Init /\ [][Next]_vars

\* ---------------------------------------------------------- SpecOffers
\* The broker with the Offer objects of section 4.4 of the design document
\* and the metadata queries made through them.  An Offer is issued for each
\* SelectionOffer event a device is sent, refers to the source without
\* owning it, and is stale once set_selection replaced that source.  Seats
\* do not share SeatData, so the offers of one seat are followed.
OfferSeat == "s1"

Offer(d, s) == [device |-> d, seat |-> devices[d].wl_seat, source |-> s, stale |-> FALSE]

\* The offers after a step of the broker: those of a source that the step
\* replaced as the selection of its seat are stale, and one is issued for
\* each SelectionOffer event the step sent.
IssueOffers ==
    offers' =
       {[o EXCEPT !.stale = @ \/ seat_data'[o.seat].selection # Client(o.source)] :
            o \in offers}
       \cup {Offer(d, sent'[d][1].source) :
                d \in {x \in 1..Len(devices) :
                          sent'[x] # << >> /\ sent'[x][1].kind = "SelectionOffer"}}

\* A metadata query through an offer: rejected when the offer is stale, else
\* read from the source at the time of the query
QueryResult(o) == IF o.stale THEN NoReply ELSE with_source_metadata(o.source)

\* The client of the offer's device asks the offer for the MIME types
OfferQuery(c, o) ==
    /\ connected[c]
    /\ Processed
    /\ o \in offers
    /\ devices[o.device].client = c
    /\ reply' = QueryResult(o)
    /\ sent' = NoEvents
    /\ lastOp' = [NoOp EXCEPT !.kind = "OfferQuery", !.client = c, !.device = o.device,
                              !.source = o.source, !.seat = o.seat, !.ok = ~o.stale]
    /\ UNCHANGED <<connected, sources, devices, seat_data, offers>>

\* Resource handles a collaborator can pass: the sources, and one object that
\* was not initialised with source::Data
Handles == 1..(MaxSources + 1)

\* A collaborator calls with_source_metadata(handle, f)
WithSourceMetadata(h) ==
    /\ Processed
    /\ reply' = with_source_metadata(h)
    /\ sent' = NoEvents
    /\ lastOp' = [NoOp EXCEPT !.kind = "WithSourceMetadata", !.source = h]
    /\ UNCHANGED <<connected, sources, devices, seat_data, offers>>

Still == UNCHANGED <<keyboard_focus, wire, inner, pc>>

NextOffers ==
    \/ \E c \in Clients : CreateDataSource(c) /\ UNCHANGED <<offers, reply>> /\ Still
    \/ \E c \in Clients, w \in {OfferSeat, StaleSeat} :
          GetDataDevice(c, w) /\ UNCHANGED <<offers, reply>> /\ Still
    \/ \E c \in Clients, s \in SourceIds, m \in Mimes :
          SourceOffer(c, s, m) /\ UNCHANGED <<offers, reply>> /\ Still
    \/ \E c \in Clients, s \in SourceIds :
          SourceDestroy(c, s) /\ UNCHANGED <<offers, reply>> /\ Still
    \/ \E c \in Clients, d \in DeviceIds, s \in SourceIds \cup {None}, kf \in KeyboardFocus :
          DeviceSetSelection(c, d, s, kf) /\ IssueOffers /\ UNCHANGED reply /\ Still
    \/ \E c \in Clients, d \in DeviceIds :
          DeviceDestroy(c, d) /\ UNCHANGED <<offers, reply>> /\ Still
    \/ \E c \in Clients : Disconnect(c) /\ UNCHANGED <<offers, reply>> /\ Still
    \/ \E c \in Clients, o \in offers : OfferQuery(c, o) /\ Still
    \/ \E h \in Handles : WithSourceMetadata(h) /\ Still

SpecOffers == Init /\ [][NextOffers]_vars

\* ------------------------------------------------------------ SpecRace
\* The broker between the transport and the input subsystem.  A client
\* submits SetSelection requests, the transport holds them (in order, per
\* client) until it delivers them, and meanwhile the input subsystem moves
\* the keyboard focus.  The handler reads the focus when the request is
\* delivered.  It starts after four requests: each client has created a
\* source and a device on the same seat, RaceSeat.
RaceSeat == "s1"

RECURSIVE SumPending(_)
SumPending(cs) ==
    IF cs = {} THEN 0
    ELSE LET c == CHOOSE x \in cs : TRUE
         IN  Len(wire.pending[c]) + SumPending(cs \ {c})

InitRace ==
    /\ connected = [c \in Clients |-> TRUE]
    /\ sources = <<SourceDataNew("c1"), SourceDataNew("c2")>>
    /\ devices = <<[client |-> "c1", wl_seat |-> RaceSeat, alive |-> TRUE],
                   [client |-> "c2", wl_seat |-> RaceSeat, alive |-> TRUE]>>
    /\ seat_data = [s \in Seats |->
                      IF s = RaceSeat
                      THEN add_device(add_device(insert_if_missing(AbsentSeatData), 1), 2)
                      ELSE AbsentSeatData]
    /\ requests = 4
    /\ sent = NoEvents
    /\ lastOp = [NoOp EXCEPT !.kind = "GetDataDevice", !.client = "c2", !.device = 2,
                             !.seat = RaceSeat]
    /\ offers = {}
    /\ reply = NoReply
    /\ keyboard_focus = [s \in Seats |-> "NoFocus"]
    /\ wire = NoWire
    /\ inner = [s \in SourceIds |-> "unlocked"]
    /\ pc = Idle

\* The client sends SetSelection { source } on its device d; the transport
\* holds it.  submitted_focused records whether the client has the seat's
\* keyboard focus at that moment.
Submit(c, d, source) ==
    /\ connected[c]
    /\ requests < MaxRequests
    /\ d \in 1..Len(devices)
    /\ devices[d].client = c
    /\ devices[d].alive
    /\ from_resource(devices[d].wl_seat)
    /\ source # None => (source \in 1..Len(sources) /\ sources[source].client = c /\ alive(source))
    /\ SumPending(Clients) < MaxPending
    /\ wire' = [wire EXCEPT !.pending[c] =
                   Append(@, [device |-> d, source |-> source,
                              submitted_focused |->
                                 MaySetSelection(keyboard_focus[devices[d].wl_seat], c)])]
    /\ UNCHANGED <<connected, sources, devices, seat_data, requests, sent, lastOp,
                   offers, reply, keyboard_focus, inner, pc>>

\* The input subsystem moves the seat's keyboard focus (or removes or adds
\* the keyboard)
SetFocus(seat, kf) ==
    /\ requests < MaxRequests
    /\ keyboard_focus[seat] # kf
    /\ keyboard_focus' = [keyboard_focus EXCEPT ![seat] = kf]
    /\ UNCHANGED <<connected, sources, devices, seat_data, requests, sent, lastOp,
                   offers, reply, wire, inner, pc>>

\* A delivery whose handler is given the focus of the time of submission
Deliver_submitted_focus(c) ==
    /\ wire.pending[c] # << >>
    /\ LET r == Head(wire.pending[c]) IN
       /\ DeviceSetSelection(c, r.device, r.source,
                             IF r.submitted_focused THEN c ELSE "NoFocus")
       /\ wire' = [pending |-> [wire.pending EXCEPT ![c] = Tail(@)], taken |-> r]
    /\ UNCHANGED <<offers, reply, keyboard_focus, inner, pc>>

\* The transport delivers the client's oldest pending request: the handler
\* runs, and reads the focus the seat's keyboard has now
Deliver(c) ==
    /\ wire.pending[c] # << >>
    /\ LET r == Head(wire.pending[c]) IN
       /\ DeviceSetSelection(c, r.device, r.source, keyboard_focus[devices[r.device].wl_seat])
       /\ wire' = [pending |-> [wire.pending EXCEPT ![c] = Tail(@)], taken |-> r]
    /\ UNCHANGED <<offers, reply, keyboard_focus, inner, pc>>

NextRace ==
    \/ \E c \in Clients, d \in DeviceIds, s \in SourceIds \cup {None} : Submit(c, d, s)
    \/ \E kf \in KeyboardFocus : SetFocus(RaceSeat, kf)
    \/ \E c \in Clients : Deliver(c)

SpecRace == InitRace /\ [][NextRace]_vars

\* ------------------------------------------------------------ SpecLock
\* The metadata of a source behind its Mutex.  The dispatch thread processes
\* Source.Offer in three steps (lock, push, drop of the guard), a reader
\* thread calls with_source_metadata in three steps (lock, the closure, drop
\* of the guard), and the steps of the two interleave.
\* A value no MIME type of a client equals: what a read may find in a Vec
\* that is being pushed to
Torn == "torn"

\* The dispatch thread is between lock and guard drop on the source
Pushing(s) == pc.dispatch.at # "idle" /\ pc.dispatch.source = s

\* What the closure can be given: the metadata, or, when the read runs
\* while a push on the same Vec does (a data race), any of the Vec before the
\* push, after it, and with a slot that is not written yet
ReadOutcomes(s) ==
    IF Pushing(s)
    THEN {with_source_metadata(s),
          [ok |-> TRUE, value |-> Append(sources[s].mime_types, pc.dispatch.mime)],
          [ok |-> TRUE, value |-> Append(sources[s].mime_types, Torn)]}
    ELSE {with_source_metadata(s)}

NoThreads == UNCHANGED <<offers, keyboard_focus, wire>>

\* let mut data = data.inner.lock().unwrap(), for Request::Offer { mime_type }
OfferLock(c, s, mime_type) ==
    /\ pc.dispatch.at = "idle"
    /\ connected[c]
    /\ requests < MaxRequests
    /\ s \in 1..Len(sources)
    /\ sources[s].client = c
    /\ alive(s)
    /\ OffersProcessed < MaxOffers
    /\ inner[s] = "unlocked"
    /\ inner' = [inner EXCEPT ![s] = "dispatch"]
    /\ pc' = [pc EXCEPT !.dispatch = [at |-> "locked", client |-> c, source |-> s,
                                      mime |-> mime_type]]
    /\ UNCHANGED <<connected, sources, devices, seat_data, requests, sent, lastOp, reply>>
    /\ NoThreads

\* data.mime_types.push(mime_type), under the guard
OfferPush ==
    /\ pc.dispatch.at = "locked"
    /\ SourceOffer(pc.dispatch.client, pc.dispatch.source, pc.dispatch.mime)
    /\ pc' = [pc EXCEPT !.dispatch.at = "pushed"]
    /\ UNCHANGED <<inner, reply>>
    /\ NoThreads

\* The handler returns: the guard is dropped
OfferUnlock ==
    /\ pc.dispatch.at = "pushed"
    /\ inner' = [inner EXCEPT ![pc.dispatch.source] = "unlocked"]
    /\ pc' = [pc EXCEPT !.dispatch = Idle.dispatch]
    /\ UNCHANGED <<connected, sources, devices, seat_data, requests, sent, lastOp, reply>>
    /\ NoThreads

\* A lock that does not wait for the holder
ReadLock_no_wait(s) ==
    /\ pc.reader.at = "idle"
    /\ s \in 1..Len(sources)
    /\ inner' = [inner EXCEPT ![s] = "reader"]
    /\ pc' = [pc EXCEPT !.reader = [at |-> "locked", source |-> s]]
    /\ UNCHANGED <<connected, sources, devices, seat_data, requests, sent, lastOp, reply>>
    /\ NoThreads

\* with_source_metadata on a source that carries Data: data.inner.lock()
ReadLock(s) ==
    /\ pc.reader.at = "idle"
    /\ s \in 1..Len(sources)
    /\ inner[s] = "unlocked"
    /\ inner' = [inner EXCEPT ![s] = "reader"]
    /\ pc' = [pc EXCEPT !.reader = [at |-> "locked", source |-> s]]
    /\ UNCHANGED <<connected, sources, devices, seat_data, requests, sent, lastOp, reply>>
    /\ NoThreads

\* f(&metadata): the closure runs
ReadRun ==
    /\ pc.reader.at = "locked"
    /\ \E r \in ReadOutcomes(pc.reader.source) : reply' = r
    /\ pc' = [pc EXCEPT !.reader.at = "read"]
    /\ UNCHANGED <<connected, sources, devices, seat_data, requests, sent, lastOp, inner>>
    /\ NoThreads

\* Ok(..) is returned: the guard is dropped
ReadUnlock ==
    /\ pc.reader.at = "read"
    /\ inner' = [inner EXCEPT ![pc.reader.source] = "unlocked"]
    /\ pc' = [pc EXCEPT !.reader = Idle.reader]
    /\ UNCHANGED <<connected, sources, devices, seat_data, requests, sent, lastOp, reply>>
    /\ NoThreads

NextLock ==
    \/ \E c \in Clients : CreateDataSource(c) /\ UNCHANGED <<reply, inner, pc>> /\ NoThreads
    \/ \E c \in Clients, s \in SourceIds, m \in Mimes : OfferLock(c, s, m)
    \/ OfferPush
    \/ OfferUnlock
    \/ \E s \in SourceIds : ReadLock(s)
    \/ ReadRun
    \/ ReadUnlock

SpecLock == Init /\ [][NextLock]_vars

\* =================================================================
\* Properties
\* =================================================================
KnownDevices(seat) ==
    {seat_data[seat].known_devices[k] : k \in 1..Len(seat_data[seat].known_devices)}

\* The last step processed a SetSelection while the requester had / had not
\* the keyboard focus of the device's seat
SetSelectionFocused(op) == op.kind = "SetSelection" /\ op.focus = op.client
SetSelectionUnfocused(op) == op.kind = "SetSelection" /\ op.focus # op.client

\* C1: a SetSelection processed while the requesting client does not hold the
\* keyboard focus of the seat changes nothing: every seat's selection and
\* devices are as before, and nothing is sent to any device.
C1_UnfocusedSetSelectionIsNoOp ==
    [][SetSelectionUnfocused(lastOp') =>
          /\ seat_data' = seat_data
          /\ sources' = sources
          /\ devices' = devices
          /\ sent' = NoEvents]_vars

\* Scenario C: an unfocused client asks for Some(source) while the seat's
\* selection is owned by a source of another client.
C1_Witness ==
    /\ SetSelectionUnfocused(lastOp)
    /\ lastOp.source # None
    /\ lastOp.focus # "NoKeyboard"
    /\ \E s \in seat_data[lastOp.seat].selection :
          /\ sources[s].client # lastOp.client
          /\ alive(s)

\* C2: a seat's selection is owned only by a source that is alive.
C2_OwnedSourceIsAlive ==
    \A seat \in Seats : \A s \in seat_data[seat].selection : alive(s)

\* C3: when the source owning a seat's selection is destroyed, the selection
\* becomes Empty in that step and every device still registered on the seat
\* is sent a cleared selection.
C3_DestroyClearsSelection ==
    [][\A seat \in Seats : \A s \in seat_data[seat].selection :
          (sources[s].alive /\ ~sources'[s].alive) =>
             /\ seat_data'[seat].selection = Empty
             /\ \A k \in 1..Len(seat_data'[seat].known_devices) :
                   sent'[seat_data'[seat].known_devices[k]] = <<SelectionEvent(Empty)>>]_vars

\* C4: a seat's selection has at most one owner; installing a source replaces
\* the previous owner.
C4_AtMostOneOwner ==
    \A seat \in Seats :
        /\ Cardinality(seat_data[seat].selection) <= 1
        /\ seat_data[seat].selection \subseteq 1..Len(sources)

\* A focused client installed a source over a selection owned by another one.
C4_Witness ==
    /\ SetSelectionFocused(lastOp)
    /\ lastOp.source # None
    /\ lastOp.old # Empty
    /\ lastOp.old # Client(lastOp.source)
    /\ seat_data[lastOp.seat].selection = Client(lastOp.source)

\* C5: a SetSelection processed while the requesting client holds the keyboard
\* focus of the device's seat installs the requested value (Owned(s) for
\* Some(s), Empty for None) and changes no other seat.
C5_FocusedSetSelectionInstalls ==
    [][SetSelectionFocused(lastOp') =>
          /\ seat_data'[lastOp'.seat].selection =
                (IF lastOp'.source = None THEN Empty ELSE Client(lastOp'.source))
          /\ \A other \in Seats \ {lastOp'.seat} : seat_data'[other] = seat_data[other]]_vars

\* A focused client cleared an owned selection while the other seat has one.
C5_Witness ==
    /\ SetSelectionFocused(lastOp)
    /\ lastOp.source = None
    /\ lastOp.old # Empty
    /\ seat_data[lastOp.seat].selection = Empty
    /\ \E other \in Seats \ {lastOp.seat} : seat_data[other].selection # Empty

\* C6: in a step that changes a seat's selection, every device registered on
\* the seat, the requester's included, is sent exactly one event, carrying the
\* new selection: an offer of the owning source, or a cleared selection.
C6_ChangeNotifiesEveryDevice ==
    [][\A seat \in Seats :
          seat_data'[seat].selection # seat_data[seat].selection =>
             \A d \in KnownDevices(seat) :
                sent'[d] = <<SelectionEvent(seat_data'[seat].selection)>>]_vars

\* The selection changed on a seat with two devices, both sent one event.
C6_Witness ==
    /\ SetSelectionFocused(lastOp)
    /\ lastOp.old # seat_data[lastOp.seat].selection
    /\ Cardinality(KnownDevices(lastOp.seat)) = 2
    /\ \A d \in KnownDevices(lastOp.seat) : Len(sent[d]) = 1
    /\ \E d \in KnownDevices(lastOp.seat) : devices[d].client # lastOp.client

\* C7: a disconnect of client c destroys the sources and devices of c and
\* nothing else: the objects of other clients, their metadata and their
\* registration are unchanged, and a seat's selection is unchanged unless a
\* source of c owned it.
C7_DisconnectTouchesOnlyOwnObjects ==
    [][lastOp'.kind = "Disconnect" =>
          /\ Len(sources') = Len(sources)
          /\ Len(devices') = Len(devices)
          /\ \A s \in 1..Len(sources) :
                IF sources[s].client = lastOp'.client
                THEN ~sources'[s].alive
                ELSE sources'[s] = sources[s]
          /\ \A d \in 1..Len(devices) :
                IF devices[d].client = lastOp'.client
                THEN ~devices'[d].alive
                ELSE devices'[d] = devices[d]
          /\ \A c \in Clients \ {lastOp'.client} : connected'[c] = connected[c]
          /\ \A seat \in Seats :
                /\ \A d \in 1..Len(devices) :
                      devices[d].client # lastOp'.client =>
                         (d \in KnownDevices(seat)' <=> d \in KnownDevices(seat))
                /\ \/ seat_data'[seat].selection = seat_data[seat].selection
                   \/ \E s \in seat_data[seat].selection :
                         sources[s].client = lastOp'.client]_vars

\* A client with a registered device disconnected while the other client has
\* a live source with metadata that owns a selection, and a registered device.
C7_Witness ==
    /\ lastOp.kind = "Disconnect"
    /\ \E d \in 1..Len(devices) : devices[d].client = lastOp.client
    /\ \E s \in 1..Len(sources) :
          /\ sources[s].client # lastOp.client
          /\ alive(s)
          /\ sources[s].mime_types # << >>
          /\ \E seat \in Seats : seat_data[seat].selection = Client(s)
    /\ \E d \in 1..Len(devices) :
          /\ devices[d].client # lastOp.client
          /\ devices[d].alive
          /\ d \in KnownDevices(devices[d].wl_seat)

\* C8: a seat's known devices are all alive, and a destroyed device is sent
\* nothing.
C8_KnownDevicesAreAlive ==
    /\ \A seat \in Seats : \A d \in KnownDevices(seat) : devices[d].alive
    /\ \A d \in 1..Len(devices) : ~devices[d].alive => sent[d] = << >>

\* C9: Source.Offer(mime_type) appends mime_type to the MIME types of its
\* source, keeping duplicates and order, and no other request changes the
\* MIME types of any source.
C9_OfferAppendsAndNothingElseDoes ==
    [][\A s \in 1..Len(sources) :
          sources'[s].mime_types =
             IF lastOp'.kind = "SourceOffer" /\ lastOp'.source = s
             THEN Append(sources[s].mime_types, lastOp'.mime)
             ELSE sources[s].mime_types]_vars

\* The same MIME type was offered twice on the source owning a selection.
C9_Witness ==
    /\ lastOp.kind = "SourceOffer"
    /\ sources[lastOp.source].mime_types = <<lastOp.mime, lastOp.mime>>
    /\ \E seat \in Seats : seat_data[seat].selection = Client(lastOp.source)

\* C10: when a focused client sets the selection of seat S to source X, every
\* device of another client registered on S is sent exactly one offer, and
\* the metadata read through the offer is the MIME types offered on X.
C10_OtherDevicesGetOfferOfSource ==
    [][(SetSelectionFocused(lastOp') /\ lastOp'.source # None) =>
          \A d \in KnownDevices(lastOp'.seat) :
             devices[d].client # lastOp'.client =>
                /\ Len(sent'[d]) = 1
                /\ sent'[d][1].kind = "SelectionOffer"
                /\ \E x \in SourceIds :
                      /\ x = lastOp'.source
                      /\ sent'[d][1].source = x
                      /\ with_source_metadata(x)' =
                            [ok |-> TRUE, value |-> sources'[x].mime_types]]_vars

\* Scenario B: after one Offer("text/plain") the device of another client is
\* sent an offer whose metadata is <<"text/plain">>.
C10_Witness ==
    /\ SetSelectionFocused(lastOp)
    /\ lastOp.source # None
    /\ sources[lastOp.source].mime_types = <<"text/plain">>
    /\ \E d \in KnownDevices(lastOp.seat) :
          /\ devices[d].client # lastOp.client
          /\ devices[d].alive
          /\ Len(sent[d]) = 1
          /\ with_source_metadata(sent[d][1].source).value = <<"text/plain">>

\* C11: an authorized SetSelection that replaces Owned(old) leaves the source
\* old as it was: alive, with its metadata readable and unchanged.  A source
\* stops being alive only in a Destroy of that source by its own client or in
\* a disconnect of its own client.
C11_SupersededSourceStaysAlive ==
    [][/\ (SetSelectionFocused(lastOp') /\ lastOp'.old # Empty) =>
             \A old \in SourceIds :
                old \in lastOp'.old =>
                   /\ sources'[old] = sources[old]
                   /\ with_source_metadata(old)' =
                         [ok |-> TRUE, value |-> sources[old].mime_types]
       /\ \A s \in 1..Len(sources) :
             (sources[s].alive /\ ~sources'[s].alive) =>
                /\ lastOp'.client = sources[s].client
                /\ \/ lastOp'.kind = "Disconnect"
                   \/ lastOp'.kind = "SourceDestroy" /\ lastOp'.source = s]_vars

\* A focused client replaced the selection owned by a live source that has
\* metadata with another source; the superseded source is alive.
C11_Witness ==
    /\ SetSelectionFocused(lastOp)
    /\ lastOp.source # None
    /\ \E old \in lastOp.old :
          /\ old # lastOp.source
          /\ alive(old)
          /\ sources[old].mime_types # << >>
          /\ with_source_metadata(old).ok
    /\ seat_data[lastOp.seat].selection = Client(lastOp.source)

\* C13: a GetDataDevice whose wl_seat resolves to no seat changes nothing: no
\* device is created or registered, no seat's SeatData is created or
\* modified, no source changes, and nothing is sent; the handler returns and
\* the broker can process the next request.
C13_UnresolvableSeatIsIgnored ==
    /\ [][(lastOp'.kind = "GetDataDevice" /\ ~from_resource(lastOp'.seat)) =>
          /\ devices' = devices
          /\ seat_data' = seat_data
          /\ sources' = sources
          /\ connected' = connected
          /\ sent' = NoEvents]_vars
    /\ [](((lastOp.kind = "GetDataDevice" /\ ~lastOp.ok) /\ requests < MaxRequests) =>
             ENABLED Next)

\* A GetDataDevice on the stale handle was processed while one seat has
\* SeatData with a device and an owned selection and the other has none.
C13_Witness ==
    /\ lastOp.kind = "GetDataDevice"
    /\ lastOp.seat = StaleSeat
    /\ ~lastOp.ok
    /\ \E seat \in Seats :
          /\ seat_data[seat].selection # Empty
          /\ seat_data[seat].known_devices # << >>
    /\ \E seat \in Seats : ~seat_data[seat].present
    /\ Len(devices) < MaxDevices

\* C14: a GetDataDevice on a resolvable seat creates the seat's SeatData only
\* if it is absent, and appends the new device to the devices of that seat:
\* an existing SeatData keeps its selection and its registered devices, and
\* no other seat changes.
C14_GetDeviceRegistersOnItsSeat ==
    [][(lastOp'.kind = "GetDataDevice" /\ from_resource(lastOp'.seat)) =>
          \E seat \in Seats :
             /\ seat = lastOp'.seat
             /\ Len(devices') = Len(devices) + 1
             /\ lastOp'.device = Len(devices')
             /\ devices'[lastOp'.device] =
                   [client |-> lastOp'.client, wl_seat |-> seat, alive |-> TRUE]
             /\ \A d \in 1..Len(devices) : devices'[d] = devices[d]
             /\ seat_data'[seat].present
             /\ seat_data'[seat].selection = seat_data[seat].selection
             /\ seat_data'[seat].known_devices =
                   Append(seat_data[seat].known_devices, lastOp'.device)
             /\ \A other \in Seats \ {seat} : seat_data'[other] = seat_data[other]]_vars

\* A second device was registered on a seat whose selection is owned; the
\* first device is still registered and the other seat has no SeatData.
C14_Witness ==
    /\ lastOp.kind = "GetDataDevice"
    /\ lastOp.ok
    /\ lastOp.device = 2
    /\ seat_data[lastOp.seat].known_devices = <<1, 2>>
    /\ seat_data[lastOp.seat].selection # Empty
    /\ \E other \in Seats : ~seat_data[other].present

\* C15: SeatData is created by a GetDataDevice on its seat, with the
\* selection Empty; an Empty selection stops being Empty only in a
\* SetSelection with a source on that seat, processed while the requester
\* holds the keyboard focus.
C15_EmptyUntilAuthorizedSetSelection ==
    [][\A seat \in Seats :
          /\ (~seat_data[seat].present /\ seat_data'[seat].present) =>
                /\ lastOp'.kind = "GetDataDevice"
                /\ lastOp'.seat = seat
                /\ seat_data'[seat].selection = Empty
          /\ ~seat_data[seat].present => seat_data[seat].selection = Empty
          /\ (seat_data[seat].selection = Empty /\ seat_data'[seat].selection # Empty) =>
                /\ SetSelectionFocused(lastOp')
                /\ lastOp'.source # None
                /\ lastOp'.seat = seat]_vars

\* Scenario A and on: a focused client installed a source, as the fourth
\* request or later, on a seat whose selection had been Empty until then.
C15_Witness ==
    /\ SetSelectionFocused(lastOp)
    /\ lastOp.source # None
    /\ lastOp.old = Empty
    /\ seat_data[lastOp.seat].selection = Client(lastOp.source)
    /\ requests >= 4

\* C16: CreateDataSource yields one new source, alive, owned by the
\* requester, with no MIME types; the other sources, the devices and every
\* seat's SeatData are unchanged and nothing is sent.
C16_CreateSourceYieldsFreshSource ==
    [][lastOp'.kind = "CreateDataSource" =>
          /\ Len(sources') = Len(sources) + 1
          /\ lastOp'.source = Len(sources')
          /\ sources'[lastOp'.source].alive
          /\ sources'[lastOp'.source].mime_types = << >>
          /\ sources'[lastOp'.source].client = lastOp'.client
          /\ \A s \in 1..Len(sources) : sources'[s] = sources[s]
          /\ seat_data' = seat_data
          /\ devices' = devices
          /\ sent' = NoEvents]_vars

\* A source was created while a seat's selection is owned by another source
\* with metadata and the seat has a registered device.
C16_Witness ==
    /\ lastOp.kind = "CreateDataSource"
    /\ lastOp.source = 2
    /\ alive(2)
    /\ sources[1].mime_types # << >>
    /\ \E seat \in Seats :
          /\ seat_data[seat].selection = Client(1)
          /\ seat_data[seat].known_devices # << >>

\* C17: Device.Destroy removes the destroyed device, and only it, from the
\* devices of its seat; the seat's selection, the other seats and the sources
\* are unchanged and nothing is sent.  The handler does not read the focus.
C17_DestroyRemovesExactlyTheDevice ==
    [][(lastOp'.kind = "DeviceDestroy" /\ from_resource(lastOp'.seat)) =>
          \E seat \in Seats :
             /\ seat = lastOp'.seat
             /\ KnownDevices(seat)' = KnownDevices(seat) \ {lastOp'.device}
             /\ seat_data'[seat].known_devices =
                   SelectSeq(seat_data[seat].known_devices,
                             LAMBDA ndd : ndd # lastOp'.device)
             /\ seat_data'[seat].selection = seat_data[seat].selection
             /\ \A other \in Seats \ {seat} : seat_data'[other] = seat_data[other]
             /\ sources' = sources
             /\ sent' = NoEvents]_vars

\* One of two devices registered on a seat with an owned selection was
\* destroyed; the other is still registered.
C17_Witness ==
    /\ lastOp.kind = "DeviceDestroy"
    /\ ~devices[lastOp.device].alive
    /\ Cardinality(KnownDevices(lastOp.seat)) = 1
    /\ lastOp.device \notin KnownDevices(lastOp.seat)
    /\ \E d \in KnownDevices(lastOp.seat) : devices[d].alive
    /\ seat_data[lastOp.seat].selection # Empty

\* C12: the outcome of a SetSelection depends only on the keyboard focus at
\* the moment the request is delivered to the handler, whatever the focus was
\* when the client submitted it: delivered while the client holds the focus
\* of the device's seat it installs the requested value, delivered while the
\* client does not hold it, it changes no seat's data and sends nothing.
C12_OutcomeFollowsFocusAtDelivery ==
    [][\A c \in Clients :
          (wire.pending[c] # << >> /\ wire'.pending[c] = Tail(wire.pending[c])) =>
             LET r == Head(wire.pending[c])
                 seat == devices[r.device].wl_seat
             IN  IF keyboard_focus[seat] = c
                 THEN seat_data'[seat].selection = ToSelection(r.source)
                 ELSE seat_data' = seat_data /\ sent' = NoEvents]_vars

\* A client submitted SetSelection(Some) while it held the focus, the focus
\* moved to the other client before the delivery, and the request was denied:
\* the seat's selection is not the requested source.
C12_Witness ==
    /\ lastOp.kind = "SetSelection"
    /\ wire.taken.submitted_focused
    /\ wire.taken.source # None
    /\ lastOp.source = wire.taken.source
    /\ lastOp.focus \in Clients \ {lastOp.client}
    /\ ~lastOp.ok
    /\ seat_data[lastOp.seat].selection # Client(lastOp.source)

\* C18: an offer reads the metadata of its source when it is queried.  A
\* Source.Offer(mime_type) sends nothing and issues no offer, and after it
\* every offer of that source that is not stale answers with the MIME types
\* it answered before followed by mime_type; a query through an offer that is
\* not stale returns the MIME types the source has at that moment.
C18_OfferReadsLiveMetadata ==
    [][/\ lastOp'.kind = "SourceOffer" =>
             /\ sent' = NoEvents
             /\ offers' = offers
             /\ \A o \in offers :
                   (o.source = lastOp'.source /\ ~o.stale) =>
                      QueryResult(o)' =
                         [ok |-> TRUE,
                          value |-> Append(QueryResult(o).value, lastOp'.mime)]
       /\ (lastOp'.kind = "OfferQuery" /\ lastOp'.ok) =>
             reply' = [ok |-> TRUE, value |-> sources'[lastOp'.source].mime_types]]_vars

\* The first Source.Offer on a source came after the source was installed and
\* an offer of it was issued to the device of another client; a query through
\* that offer now returns the offered MIME type.
C18_Witness ==
    /\ lastOp.kind = "SourceOffer"
    /\ seat_data[OfferSeat].selection = Client(lastOp.source)
    /\ \E o \in offers :
          /\ o.source = lastOp.source
          /\ ~o.stale
          /\ devices[o.device].client # lastOp.client
          /\ QueryResult(o) = [ok |-> TRUE, value |-> <<lastOp.mime>>]

\* The source of the offer is not the live owner of its seat's selection
NotCurrent(o) ==
    \/ seat_data[o.seat].selection # Client(o.source)
    \/ ~alive(o.source)

AllOffers == [device : DeviceIds, seat : Seats, source : SourceIds, stale : BOOLEAN]

\* C19: an offer whose source is not the current selection of its seat any
\* more (superseded, cleared or destroyed) rejects every query, and an offer
\* that rejects queries stays and rejects them in every later state.
C19_StaleOfferRejectsQueries ==
    [][\A o \in AllOffers :
          /\ (o \in offers' /\ NotCurrent(o)') => ~QueryResult(o)'.ok
          /\ (o \in offers /\ ~QueryResult(o).ok) =>
                (o \in offers' /\ ~QueryResult(o)'.ok)]_vars

\* C20: with_source_metadata on a handle that carries no source::Data
\* returns the Unmanaged error, on a handle that carries it Ok with the
\* closure's result on the MIME types the source has then; in both cases no
\* state of the broker changes and nothing is sent.
C20_WithSourceMetadataResult ==
    [][lastOp'.kind = "WithSourceMetadata" =>
          /\ UNCHANGED <<connected, sources, devices, seat_data, offers>>
          /\ sent' = NoEvents
          /\ \E h \in Handles :
                /\ h = lastOp'.source
                /\ reply' = IF h <= Len(sources)
                            THEN [ok |-> TRUE, value |-> sources[h].mime_types]
                            ELSE [ok |-> FALSE, value |-> << >>]]_vars

\* The call failed on a handle without source::Data while a source with
\* metadata owns the selection.
C20_Witness ==
    /\ lastOp.kind = "WithSourceMetadata"
    /\ lastOp.source > Len(sources)
    /\ ~reply.ok
    /\ \E s \in 1..Len(sources) :
          /\ sources[s].mime_types # << >>
          /\ seat_data[OfferSeat].selection = Client(s)

\* C23: every device whose wl_seat resolves is on a seat that has SeatData,
\* so the unwrap of the seat's user data in the Device handler finds it: no
\* SetSelection or Destroy panics, and SeatData, once there, is never removed.
C23_DeviceSeatHasSeatData ==
    /\ [](\A d \in 1..Len(devices) :
             from_resource(devices[d].wl_seat) =>
                user_data_get(seat_data[devices[d].wl_seat]))
    /\ [](~lastOp.panic)
    /\ [][\A seat \in Seats :
             user_data_get(seat_data[seat]) => user_data_get(seat_data[seat])']_vars

\* A Destroy was processed on a seat whose other device, by now not
\* registered any more, had its SetSelection and Destroy processed before:
\* the seat's SeatData is still there, with no device.
C23_Witness ==
    /\ lastOp.kind = "DeviceDestroy"
    /\ ~lastOp.panic
    /\ Len(devices) = 2
    /\ devices[1].wl_seat = devices[2].wl_seat
    /\ \A d \in 1..2 : ~devices[d].alive
    /\ user_data_get(seat_data[lastOp.seat])
    /\ seat_data[lastOp.seat].known_devices = << >>
    /\ seat_data[lastOp.seat].selection # Empty

\* C24: a SetSelection processed while the requester holds the keyboard focus
\* calls Handler::new_selection once, with the requested source (or None),
\* while the seat still has the selection it had before the request and
\* before anything is sent; no other request, and no denied SetSelection,
\* calls it.
C24_NewSelectionCalledOnceBefore ==
    [][IF SetSelectionFocused(lastOp')
       THEN \E seat \in Seats :
               /\ seat = lastOp'.seat
               /\ lastOp'.new_selection =
                     <<[source |-> lastOp'.source,
                        selection |-> seat_data[seat].selection]>>
       ELSE lastOp'.new_selection = << >>]_vars

\* The handler was called for a source that replaced the source of another
\* client: the selection it was called under is not the one the seat has now,
\* and a device of another client was sent the new one.
C24_Witness ==
    /\ SetSelectionFocused(lastOp)
    /\ lastOp.source # None
    /\ Len(lastOp.new_selection) = 1
    /\ lastOp.new_selection[1].selection # Empty
    /\ lastOp.new_selection[1].selection # seat_data[lastOp.seat].selection
    /\ \E d \in KnownDevices(lastOp.seat) :
          devices[d].client # lastOp.client /\ sent[d] # << >>

\* C25: a SetSelection on a device whose seat has no keyboard is denied,
\* whoever sends it and whatever source it names: every seat's selection and
\* devices, the sources and the devices are unchanged and nothing is sent.
C25_NoKeyboardDenies ==
    [][(lastOp'.kind = "SetSelection" /\ ~get_keyboard(lastOp'.focus)) =>
          /\ ~lastOp'.ok
          /\ seat_data' = seat_data
          /\ sources' = sources
          /\ devices' = devices
          /\ sent' = NoEvents
          /\ lastOp'.new_selection = << >>]_vars

\* On a seat without a keyboard a client asked for its own live source while
\* the seat's selection is owned by the other client and the seat has the
\* devices of both.
C25_Witness ==
    /\ lastOp.kind = "SetSelection"
    /\ lastOp.focus = "NoKeyboard"
    /\ lastOp.source # None
    /\ ~lastOp.ok
    /\ \E s \in seat_data[lastOp.seat].selection : sources[s].client # lastOp.client
    /\ Cardinality(KnownDevices(lastOp.seat)) = 2

\* ------------------------------------------- destruction, one object at a time
\* The broker's objects and seats
Broker == [sources |-> sources, devices |-> devices, seat_data |-> seat_data]

\* The live sources and devices of client c
Objects(c) ==
    {[kind |-> "source", id |-> s] : s \in {x \in 1..Len(sources) :
                                               sources[x].client = c /\ alive(x)}}
    \cup {[kind |-> "device", id |-> d] : d \in {x \in 1..Len(devices) :
                                                    devices[x].client = c /\ devices[x].alive}}

\* The transport destroys one object of a closed connection: a source gets
\* its destroyed callback, a device has none
destroyed(st, obj) ==
    IF obj.kind = "source"
    THEN [st EXCEPT !.sources[obj.id] = destroy_notify(@)]
    ELSE [st EXCEPT !.devices[obj.id].alive = FALSE]

\* The object's Destroy request is processed, then the object is destroyed
explicit_destroy(st, obj) ==
    IF obj.kind = "source"
    THEN [st EXCEPT !.sources[obj.id] = destroy_notify(@)]
    ELSE LET seat == st.devices[obj.id].wl_seat IN
         IF from_resource(seat)
         THEN [st EXCEPT !.seat_data[seat] = retain_devices(@, obj.id),
                         !.devices[obj.id].alive = FALSE]
         ELSE [st EXCEPT !.devices[obj.id].alive = FALSE]

RECURSIVE destroyed_in_order(_, _)
destroyed_in_order(st, order) ==
    IF order = << >> THEN st
    ELSE destroyed_in_order(destroyed(st, Head(order)), Tail(order))

RECURSIVE explicit_destroy_in_order(_, _)
explicit_destroy_in_order(st, order) ==
    IF order = << >> THEN st
    ELSE explicit_destroy_in_order(explicit_destroy(st, Head(order)), Tail(order))

\* Every order the objects of S can be destroyed in
Orders(S) ==
    {o \in [1..Cardinality(S) -> S] : \A i, j \in 1..Cardinality(S) : o[i] = o[j] => i = j}

\* What the comparison looks at: each seat's selection and set of devices,
\* each source's alive flag
Outcome(st) ==
    [selection |-> [seat \in Seats |-> st.seat_data[seat].selection],
     devices |-> [seat \in Seats |->
                     {st.seat_data[seat].known_devices[k] :
                         k \in 1..Len(st.seat_data[seat].known_devices)}],
     alive |-> [s \in 1..Len(st.sources) |-> st.sources[s].alive]]

\* C22: after the disconnect of a client, each seat's selection and devices
\* and each source's alive flag are what destroying the client's objects one
\* by one gives, in whatever order, and what an explicit Destroy request for
\* each of them gives, in whatever order.
C22_DisconnectIsExplicitDestroys ==
    [][lastOp'.kind = "Disconnect" =>
          \E c \in Clients :
             /\ c = lastOp'.client
             /\ \A order \in Orders(Objects(c)) :
                   /\ Outcome(destroyed_in_order(Broker, order)) = Outcome(Broker')
                   /\ Outcome(explicit_destroy_in_order(Broker, order)) = Outcome(Broker')]_vars

\* seq is the first Len(seq) elements of whole
IsPrefix(seq, whole) ==
    /\ Len(seq) <= Len(whole)
    /\ \A i \in 1..Len(seq) : seq[i] = whole[i]

\* C21: a metadata read and an append on the same source never run at the
\* same time, a read returns a whole prefix of the MIME types the source has
\* (and, the sequence only growing, of those it will have), and a source
\* whose lock is held does not keep a read from another source.
C21_MetadataLockExcludes ==
    /\ [](\A s \in SourceIds : ~(Pushing(s) /\ pc.reader.at # "idle" /\ pc.reader.source = s))
    /\ [](pc.reader.at = "read" =>
             /\ reply.ok
             /\ IsPrefix(reply.value, sources[pc.reader.source].mime_types))
    /\ [](\A s \in 1..Len(sources) :
             (pc.reader.at = "idle" /\ ~Pushing(s)) => ENABLED ReadLock(s))
    /\ [][\A s \in 1..Len(sources) :
             IsPrefix(sources[s].mime_types, sources'[s].mime_types)]_vars

\* The reader holds the lock of one source, whose MIME types it has read,
\* while the dispatch thread holds the lock of another for an append.
C21_Witness ==
    /\ pc.dispatch.at = "locked"
    /\ pc.reader.at = "read"
    /\ pc.reader.source # pc.dispatch.source
    /\ inner[pc.dispatch.source] = "dispatch"
    /\ inner[pc.reader.source] = "reader"
    /\ reply.value # << >>
    /\ reply.value = sources[pc.reader.source].mime_types

=============================================================================
